---- MODULE Spec2Model ----
(***************************************************************************)
(* Graceful-shutdown core of goscaffold: the requestTracker (a goroutine   *)
(* that serialises start/end/shutdown commands read from a buffered        *)
(* channel), the httpHandler that guards every request with start()/end(), *)
(* and HTTPScaffold.Open/Listen/Shutdown which own the tracker and the     *)
(* listener.                                                               *)
(*                                                                         *)
(* Every goroutine is a process of the model.  A step is one atomic        *)
(* operation on shared state (an atomic load or store, a channel send or   *)
(* receive) together with the goroutine-local code around it.              *)
(***************************************************************************)
EXTENDS Integers, Sequences, FiniteSets, TLC

(* ------------------------------ bounds --------------------------------- *)
\* number of HTTP requests (one goroutine each) that reach ServeHTTP
NReq == 2
\* number of goroutines that call Shutdown, once each
NCallers == 2
\* the clock stops at MaxTime ticks
MaxTime == 4
\* seconds of wall-clock time per clock tick
TickLen == 15

\* requests, numbered in the order in which they enter ServeHTTP
Req == 1..NReq
\* Shutdown calls, numbered in the order in which they begin
Caller == 1..NCallers

(* --------------------------- program constants ------------------------- *)
\* values for the command channel (const iota block)
startRequest == 0
endRequest == 1
shutdown == 2
\* capacity of commandChan, make(chan int, 100)
CommandChanCap == 100
\* capacity of C, make(chan error, 1)
CCap == 1
\* DefaultGraceTimeout = 30 * time.Second, in seconds
DefaultGraceTimeout == 30
\* the tracker's shutdownWait in clock ticks
shutdownWait == DefaultGraceTimeout \div TickLen
\* http.StatusServiceUnavailable
StatusServiceUnavailable == 503
\* ErrSignalCaught, the reason the signal goroutine shuts down with
ErrSignalCaught == "Caught shutdown signal"
\* make(chan os.Signal, 1)
SigChanCap == 1
\* the signals CatchSignals asks to be notified of
Signals == {"SIGINT", "SIGTERM", "SIGHUP"}
\* stackSize := 32767
InitialStackSize == 32767
\* lengths in bytes the trace of all goroutines can have when dumpStack asks
\* for it: one that fits the first buffer, one that does not
StackLens == {1000, 40000}
\* the media types SelectMediaType is asked to choose from, and "" for a
\* request that accepts neither
MediaTypes == {"text/plain", "application/json", ""}

\* error values: a nil error, and the non-nil errors handed to Shutdown
NilErr == "nil"
Reasons == {"Stop", "Validate"}
\* an atomic.Value nothing was stored in: Load() returns a nil interface
Unset == "unset"

VARIABLES
    \* HTTPScaffold
    open,             \* s.open
    trackerSet,       \* s.tracker != nil
    listenerState,    \* s.insecureListener: "none", "bound", "closed"
    listenPc,         \* the goroutine in Listen: "init", "waiting", "returned", "failed"
    listenResult,     \* what the last Listen call returned
    crashed,          \* an unrecovered panic ended the process
    \* requestTracker fields
    C,                \* t.C, buffered channel of errors
    shuttingDown,     \* t.shuttingDown (int32, atomic)
    shutdownReason,   \* t.shutdownReason (*atomic.Value)
    commandChan,      \* t.commandChan, buffered channel of commands
    \* locals of trackerLoop
    activeRequests,
    stopping,
    sentStop,
    graceArmed,       \* graceTimer is running
    graceDeadline,    \* the instant graceTimer expires
    graceChan,        \* a value is waiting in graceTimer.C
    loopPc,           \* "select", or "shutdown": inside case shutdown, flag stored
    \* clock: ticks since the loop began to drain
    now,
    \* one goroutine per request in httpHandler.ServeHTTP
    rpc,              \* "idle","checked","serving","rejected","done","panicked"
    startErr,         \* what start() returned to the request
    handlerCalled,    \* the wrapped handler was invoked
    endCalls,         \* number of end() calls the request made
    sentCmds,         \* number of commands the request put on commandChan
    status,           \* status written by the guard itself (0: none)
    negotiated,       \* mt, what SelectMediaType returned to the guard
    contentType,      \* the Content-Type header the guard set
    body,             \* the body the guard wrote
    \* one goroutine per Shutdown call
    cpc,              \* "idle", "stored", "returned", "panicked"
    \* history
    delivered,        \* number of values ever sent on C
    stopBy,           \* what made the loop send the stop
    notifying,        \* signal.Notify is in force for sigChan
    sigChan,          \* CatchSignals' sigChan, capacity SigChanCap
    bridgePc,         \* where the goroutine of CatchSignals stands
    sigShutdowns,     \* Shutdown(ErrSignalCaught) calls made by it
    termDelivered,    \* a SIGINT or SIGTERM reached the process while notifying
    w,                \* dumpStack: bytes the last runtime.Stack wrote
    stackSize         \* dumpStack: size of stackBuf

scaffoldVars == <<open, trackerSet, listenerState, listenPc, listenResult, crashed>>
trackerVars == <<C, shuttingDown, shutdownReason, commandChan>>
loopVars == <<activeRequests, stopping, sentStop, graceArmed, graceDeadline, graceChan,
              loopPc>>
respVars == <<status, negotiated, contentType, body>>
reqVars == <<rpc, startErr, handlerCalled, endCalls, sentCmds, respVars>>
callerVars == <<cpc>>
histVars == <<delivered, stopBy>>
sigVars == <<notifying, sigChan, bridgePc, sigShutdowns, termDelivered, w, stackSize>>
vars == <<scaffoldVars, trackerVars, loopVars, now, reqVars, callerVars, histVars,
          sigVars>>

(* ------------------------------ Init ----------------------------------- *)
\* CreateHTTPScaffold returns &HTTPScaffold{}: nothing open, no tracker.
\* The tracker fields hold what startRequestTracker will put there.
Init ==
    /\ open = FALSE
    /\ trackerSet = FALSE
    /\ listenerState = "none"
    /\ listenPc = "init"
    /\ listenResult = Unset
    /\ crashed = FALSE
    /\ C = <<>>
    /\ shuttingDown = 0
    /\ shutdownReason = Unset
    /\ commandChan = <<>>
    /\ activeRequests = 0
    /\ stopping = FALSE
    /\ sentStop = FALSE
    /\ graceArmed = FALSE
    /\ graceDeadline = 0
    /\ graceChan = FALSE
    /\ loopPc = "select"
    /\ now = 0
    /\ rpc = [r \in Req |-> "idle"]
    /\ startErr = [r \in Req |-> Unset]
    /\ handlerCalled = [r \in Req |-> FALSE]
    /\ endCalls = [r \in Req |-> 0]
    /\ sentCmds = [r \in Req |-> 0]
    /\ status = [r \in Req |-> 0]
    /\ negotiated = [r \in Req |-> Unset]
    /\ contentType = [r \in Req |-> Unset]
    /\ body = [r \in Req |-> <<>>]
    /\ notifying = FALSE
    /\ sigChan = <<>>
    /\ bridgePc = "none"
    /\ sigShutdowns = 0
    /\ termDelivered = FALSE
    /\ w = 0
    /\ stackSize = InitialStackSize
    /\ cpc = [c \in Caller |-> "idle"]
    /\ delivered = 0
    /\ stopBy = "none"

\* http.Serve was started with the guarded handler: requests reach ServeHTTP.
\* Closing the listener ends the accepting of connections, not the serving
\* of requests on the connections already accepted.
Serving == listenPc \in {"waiting", "returned"}

\* request r is the next to enter ServeHTTP
NextRequest(r) == rpc[r] = "idle" /\ \A q \in Req : q < r => rpc[q] # "idle"
\* call c is the next Shutdown call to begin
NextCaller(c) == cpc[c] = "idle" /\ \A d \in Caller : d < c => cpc[d] # "idle"

(* ------------------------- requestTracker ------------------------------ *)
\* sendStop(sent): the new value of sentStop, the new contents of C, and
\* whether the call panicked.  Load() of an empty atomic.Value is a nil
\* interface and the type assertion .(*error) on it panics.  The pointer
\* shutdown() stores is &reason, which is never nil, so the "reason == nil"
\* branch is taken by no stored value; a nil error is sent like any other.
sendStop(sent, reason, ch) ==
    IF sent THEN [sent |-> TRUE, ch |-> ch, panic |-> FALSE]
    ELSE IF reason = Unset THEN [sent |-> sent, ch |-> ch, panic |-> TRUE]
    ELSE [sent |-> TRUE, ch |-> Append(ch, reason), panic |-> FALSE]

\* the tracker goroutine is in its select: the loop condition !sentStop holds
LoopRunning == trackerSet /\ ~sentStop /\ ~crashed /\ loopPc = "select"

\* graceTimer after a step of the loop that ran sendStop: when the loop
\* condition fails trackerLoop returns and nothing reads its timer again
TimerAfterStop(sent) ==
    IF sent
      THEN graceArmed' = FALSE /\ graceDeadline' = 0 /\ graceChan' = FALSE
      ELSE UNCHANGED <<graceArmed, graceDeadline, graceChan>>

\* LoopSendStop with the result of sendStop dropped: "t.sendStop(sentStop)"
\* in place of "sentStop = t.sendStop(sentStop)"
LoopSendStopResultDropped(cause) ==
    LET r == sendStop(sentStop, shutdownReason, C) IN
    /\ Len(C) < CCap
    /\ sentStop' = sentStop
    /\ C' = r.ch
    /\ crashed' = r.panic
    /\ delivered' = delivered + (Len(r.ch) - Len(C))
    /\ stopBy' = cause
    /\ UNCHANGED <<graceArmed, graceDeadline, graceChan>>

\* the effect of one sendStop call made by trackerLoop for the given cause
LoopSendStop(cause) ==
    LET r == sendStop(sentStop, shutdownReason, C) IN
    /\ Len(C) < CCap
    /\ sentStop' = r.sent
    /\ C' = r.ch
    /\ crashed' = r.panic
    /\ delivered' = delivered + (Len(r.ch) - Len(C))
    /\ stopBy' = IF r.sent /\ ~sentStop THEN cause ELSE stopBy
    /\ TimerAfterStop(r.sent)

\* case startRequest: activeRequests++
ProcessStart ==
    /\ LoopRunning
    /\ commandChan # <<>> /\ Head(commandChan) = startRequest
    /\ commandChan' = Tail(commandChan)
    /\ activeRequests' = activeRequests + 1
    /\ UNCHANGED <<open, trackerSet, listenerState, listenPc, listenResult, crashed>>
    /\ UNCHANGED <<C, shuttingDown, shutdownReason>>
    /\ UNCHANGED <<stopping, sentStop, graceArmed, graceDeadline, graceChan, loopPc>>
    /\ UNCHANGED <<now, reqVars, callerVars, histVars>>
    /\ UNCHANGED sigVars

\* EndSendsStop comparing with 1: the test made before the decrement counts
EndSendsStopOffByOne(stop, active) == stop /\ active = 1

\* EndSendsStop without the stopping flag
EndSendsStopAlways(stop, active) == active = 0

\* the test trackerLoop makes after activeRequests--
EndSendsStop(stop, active) == stop /\ active = 0

\* case endRequest: activeRequests--, and the stop once draining reaches zero
ProcessEnd ==
    /\ LoopRunning
    /\ commandChan # <<>> /\ Head(commandChan) = endRequest
    /\ commandChan' = Tail(commandChan)
    /\ activeRequests' = activeRequests - 1
    /\ IF EndSendsStop(stopping, activeRequests')
         THEN LoopSendStop("drain")
         ELSE /\ UNCHANGED <<sentStop, C, crashed, delivered, stopBy>>
              /\ UNCHANGED <<graceArmed, graceDeadline, graceChan>>
    /\ UNCHANGED <<open, trackerSet, listenerState, listenPc, listenResult>>
    /\ UNCHANGED <<shuttingDown, shutdownReason, stopping, loopPc>>
    /\ UNCHANGED <<now, reqVars, callerVars>>
    /\ UNCHANGED sigVars

\* graceTimer.Reset(d): the timer runs again and expires d from now.  A value
\* that an earlier expiry left in graceTimer.C stays there or is discarded,
\* depending on the Go runtime's timer implementation.
TimerReset(d) ==
    /\ graceArmed' = TRUE
    /\ graceDeadline' = now + d
    /\ graceChan' \in {graceChan, FALSE}

\* ProcessShutdown flipping the two flags in place of setting them
ProcessShutdownToggles ==
    /\ LoopRunning
    /\ commandChan # <<>> /\ Head(commandChan) = shutdown
    /\ commandChan' = Tail(commandChan)
    /\ stopping' = ~stopping
    /\ shuttingDown' = 1 - shuttingDown
    /\ loopPc' = "shutdown"
    /\ UNCHANGED <<scaffoldVars, C, shutdownReason>>
    /\ UNCHANGED <<activeRequests, sentStop, graceArmed, graceDeadline, graceChan>>
    /\ UNCHANGED <<now, reqVars, callerVars, histVars>>
    /\ UNCHANGED sigVars

\* case shutdown, up to the flag: the command is received, stopping = true,
\* atomic.StoreInt32(&t.shuttingDown, 1).  From here start() sees the flag,
\* while the loop has not yet looked at activeRequests.
ProcessShutdown ==
    /\ LoopRunning
    /\ commandChan # <<>> /\ Head(commandChan) = shutdown
    /\ commandChan' = Tail(commandChan)
    /\ stopping' = TRUE
    /\ shuttingDown' = 1
    /\ loopPc' = "shutdown"
    /\ UNCHANGED <<scaffoldVars, C, shutdownReason>>
    /\ UNCHANGED <<activeRequests, sentStop, graceArmed, graceDeadline, graceChan>>
    /\ UNCHANGED <<now, reqVars, callerVars, histVars>>
    /\ UNCHANGED sigVars

\* case shutdown, after the flag: sendStop (which loads the reason now) when
\* no request is active, graceTimer.Reset(shutdownWait) otherwise
ProcessShutdownBranch ==
    /\ trackerSet /\ ~sentStop /\ ~crashed
    /\ loopPc = "shutdown"
    /\ loopPc' = "select"
    /\ IF activeRequests <= 0
         THEN LoopSendStop("shutdown")
         ELSE /\ TimerReset(shutdownWait)
              /\ UNCHANGED <<sentStop, C, crashed, delivered, stopBy>>
    /\ UNCHANGED <<open, trackerSet, listenerState, listenPc, listenResult>>
    /\ UNCHANGED <<shuttingDown, shutdownReason, commandChan>>
    /\ UNCHANGED <<activeRequests, stopping>>
    /\ UNCHANGED <<now, reqVars, callerVars>>
    /\ UNCHANGED sigVars

\* the runtime expires graceTimer and puts a value in graceTimer.C
TimerExpire ==
    /\ graceArmed /\ now >= graceDeadline
    /\ LoopRunning
    /\ graceArmed' = FALSE
    /\ graceChan' = TRUE
    /\ UNCHANGED <<scaffoldVars, trackerVars>>
    /\ UNCHANGED <<activeRequests, stopping, sentStop, graceDeadline, loopPc>>
    /\ UNCHANGED <<now, reqVars, callerVars, histVars>>
    /\ UNCHANGED sigVars

\* case <-graceTimer.C
ProcessTimer ==
    /\ LoopRunning
    /\ graceChan
    /\ LoopSendStop("timer")
    /\ UNCHANGED <<open, trackerSet, listenerState, listenPc, listenResult>>
    /\ UNCHANGED <<shuttingDown, shutdownReason, commandChan>>
    /\ UNCHANGED <<activeRequests, stopping, loopPc>>
    /\ UNCHANGED <<now, reqVars, callerVars>>
    /\ UNCHANGED sigVars

\* Time passes.  The clock of the model starts when the loop starts to drain
\* and stops with the loop: before and after, the passing of time changes
\* nothing the tracker does.  An armed timer expires at its deadline, and
\* the loop takes a waiting timer value, before the clock moves on.
Tick ==
    /\ now < MaxTime
    /\ LoopRunning /\ stopping
    /\ ~(graceArmed /\ now >= graceDeadline)
    /\ ~graceChan
    /\ now' = now + 1
    /\ UNCHANGED <<scaffoldVars, trackerVars, loopVars, reqVars, callerVars, histVars>>
    /\ UNCHANGED sigVars

\* start(), first statement: atomic.LoadInt32(&t.shuttingDown) read 0
StartLoad(r) ==
    /\ ~crashed
    /\ Serving
    /\ NextRequest(r)
    /\ shuttingDown = 0
    /\ rpc' = [rpc EXCEPT ![r] = "checked"]
    /\ UNCHANGED <<startErr, handlerCalled, endCalls, sentCmds, respVars>>
    /\ UNCHANGED <<scaffoldVars, trackerVars, loopVars, now, callerVars, histVars>>
    /\ UNCHANGED sigVars

\* StartSend without the send: start() returns nil and tells the loop nothing
StartSendNoCommand(r) ==
    /\ ~crashed
    /\ rpc[r] = "checked"
    /\ startErr' = [startErr EXCEPT ![r] = NilErr]
    /\ handlerCalled' = [handlerCalled EXCEPT ![r] = TRUE]
    /\ rpc' = [rpc EXCEPT ![r] = "serving"]
    /\ UNCHANGED <<endCalls, sentCmds, respVars>>
    /\ UNCHANGED <<scaffoldVars, trackerVars>>
    /\ UNCHANGED <<loopVars, now, callerVars, histVars>>
    /\ UNCHANGED sigVars

\* start() after sd == 0: t.commandChan <- startRequest; return nil.
\* ServeHTTP then calls the wrapped handler.
StartSend(r) ==
    /\ ~crashed
    /\ rpc[r] = "checked"
    /\ Len(commandChan) < CommandChanCap
    /\ commandChan' = Append(commandChan, startRequest)
    /\ sentCmds' = [sentCmds EXCEPT ![r] = @ + 1]
    /\ startErr' = [startErr EXCEPT ![r] = NilErr]
    /\ handlerCalled' = [handlerCalled EXCEPT ![r] = TRUE]
    /\ rpc' = [rpc EXCEPT ![r] = "serving"]
    /\ UNCHANGED <<endCalls, respVars>>
    /\ UNCHANGED <<scaffoldVars, C, shuttingDown, shutdownReason>>
    /\ UNCHANGED <<loopVars, now, callerVars, histVars>>
    /\ UNCHANGED sigVars

\* StartFastResult returning one fixed "stopping" error for every reason
StartFastResultFixed(reason) ==
    IF reason = Unset THEN "panic" ELSE IF reason = NilErr THEN NilErr ELSE "Stop"

\* what start() returns once it has read sd != 0: *reason, the error last
\* stored by shutdown() (nil when that error was nil); nothing is sent on
\* commandChan.  Load() of a value never stored makes the type assertion panic.
StartFastResult(reason) == IF reason = Unset THEN "panic" ELSE reason

\* start() with sd != 0, and the branch of ServeHTTP its result selects:
\* startErr == nil calls the wrapped handler, anything else is rejected
StartFast(r) ==
    /\ ~crashed
    /\ Serving
    /\ NextRequest(r)
    /\ shuttingDown # 0
    /\ LET res == StartFastResult(shutdownReason) IN
         /\ startErr' = [startErr EXCEPT ![r] = IF res = "panic" THEN @ ELSE res]
         /\ rpc' = [rpc EXCEPT ![r] =
                      IF res = "panic" THEN "panicked"
                      ELSE IF res = NilErr THEN "serving" ELSE "rejected"]
         /\ handlerCalled' = [handlerCalled EXCEPT ![r] = (res = NilErr)]
    /\ UNCHANGED <<endCalls, sentCmds, respVars>>
    /\ UNCHANGED <<scaffoldVars, trackerVars, loopVars, now, callerVars, histVars>>
    /\ UNCHANGED sigVars

\* end() sending the wrong command
endSendsStart(ch) == Append(ch, startRequest)

\* end(): t.commandChan <- endRequest
end(ch) == Append(ch, endRequest)

\* the wrapped handler returns (whatever response it wrote) and ServeHTTP
\* calls h.s.tracker.end()
HandlerReturn(r) ==
    /\ ~crashed
    /\ rpc[r] = "serving"
    /\ Len(commandChan) < CommandChanCap
    /\ commandChan' = end(commandChan)
    /\ endCalls' = [endCalls EXCEPT ![r] = @ + 1]
    /\ sentCmds' = [sentCmds EXCEPT ![r] = @ + 1]
    /\ rpc' = [rpc EXCEPT ![r] = "done"]
    /\ UNCHANGED <<startErr, handlerCalled, respVars>>
    /\ UNCHANGED <<scaffoldVars, C, shuttingDown, shutdownReason>>
    /\ UNCHANGED <<loopVars, now, callerVars, histVars>>
    /\ UNCHANGED sigVars

\* the wrapped handler panics: ServeHTTP unwinds past the end() call (there
\* is no defer) and net/http recovers the panic for the connection
HandlerPanic(r) ==
    /\ ~crashed
    /\ rpc[r] = "serving"
    /\ rpc' = [rpc EXCEPT ![r] = "panicked"]
    /\ UNCHANGED <<startErr, handlerCalled, endCalls, sentCmds, respVars>>
    /\ UNCHANGED <<scaffoldVars, trackerVars, loopVars, now, callerVars, histVars>>
    /\ UNCHANGED sigVars

\* json.Marshal of a map[string]string: an object with the keys in sorted
\* order, as the sequence of its tokens
jsonMarshal(errorField, messageField) ==
    <<"{", "error", errorField, "message", messageField, "}">>

\* RejectBody writing JSON for every media type
RejectBodyAlwaysJSON(mt, err) == jsonMarshal("Stopping", err)

\* the body ServeHTTP writes for a rejected request: switch mt, with
\* startErr.Error() as the message or as the whole body
RejectBody(mt, err) ==
    IF mt = "application/json" THEN jsonMarshal("Stopping", err) ELSE <<err>>

\* ServeHTTPReject with the end() call placed after the if/else
ServeHTTPRejectEnds(r, mt) ==
    /\ ~crashed
    /\ rpc[r] = "rejected"
    /\ Len(commandChan) < CommandChanCap
    /\ commandChan' = end(commandChan)
    /\ endCalls' = [endCalls EXCEPT ![r] = @ + 1]
    /\ sentCmds' = [sentCmds EXCEPT ![r] = @ + 1]
    /\ negotiated' = [negotiated EXCEPT ![r] = mt]
    /\ contentType' = [contentType EXCEPT ![r] = mt]
    /\ status' = [status EXCEPT ![r] = StatusServiceUnavailable]
    /\ body' = [body EXCEPT ![r] = RejectBody(mt, startErr[r])]
    /\ rpc' = [rpc EXCEPT ![r] = "done"]
    /\ UNCHANGED <<startErr, handlerCalled>>
    /\ UNCHANGED <<scaffoldVars, C, shuttingDown, shutdownReason>>
    /\ UNCHANGED <<loopVars, now, callerVars, histVars>>
    /\ UNCHANGED sigVars

\* the else branch of ServeHTTP for the media type mt that SelectMediaType
\* returned: the Content-Type header, WriteHeader(503), the body
ServeHTTPReject(r, mt) ==
    /\ ~crashed
    /\ rpc[r] = "rejected"
    /\ negotiated' = [negotiated EXCEPT ![r] = mt]
    /\ contentType' = [contentType EXCEPT ![r] = mt]
    /\ status' = [status EXCEPT ![r] = StatusServiceUnavailable]
    /\ body' = [body EXCEPT ![r] = RejectBody(mt, startErr[r])]
    /\ rpc' = [rpc EXCEPT ![r] = "done"]
    /\ UNCHANGED <<startErr, handlerCalled, endCalls, sentCmds>>
    /\ UNCHANGED <<scaffoldVars, trackerVars, loopVars, now, callerVars, histVars>>
    /\ UNCHANGED sigVars

(* --------------------------- HTTPScaffold ------------------------------ *)
\* startRequestTracker: a new tracker with empty channels, and its loop's
\* locals before the first select (graceTimer is set to MaxInt64
\* nanoseconds, which no clock of the model reaches: not armed)
NewTracker ==
    /\ trackerSet' = TRUE
    /\ C' = <<>>
    /\ shuttingDown' = 0
    /\ shutdownReason' = Unset
    /\ commandChan' = <<>>
    /\ activeRequests' = 0
    /\ stopping' = FALSE
    /\ sentStop' = FALSE
    /\ graceArmed' = FALSE
    /\ graceDeadline' = 0
    /\ graceChan' = FALSE
    /\ loopPc' = "select"
    /\ delivered' = 0
    /\ stopBy' = "none"

\* Open: s.tracker is replaced first, then the port is bound; open and the
\* listener are set only when the bind succeeded
OpenBody(bindOk) ==
    /\ NewTracker
    /\ open' = IF bindOk THEN TRUE ELSE open
    /\ listenerState' = IF bindOk THEN "bound" ELSE listenerState

\* Open() called by the owner before Listen.  A bind error is fatal to the
\* owner, which goes on to call neither Open nor Listen again.
Open(bindOk) ==
    /\ ~crashed
    /\ listenPc = "init"
    /\ ~trackerSet
    /\ OpenBody(bindOk)
    /\ listenPc' = IF bindOk THEN listenPc ELSE "failed"
    /\ listenResult' = IF bindOk THEN listenResult ELSE "BindError"
    /\ UNCHANGED <<crashed, now, reqVars, callerVars>>
    /\ UNCHANGED sigVars

\* ListenStart with the error of Open ignored
ListenStartIgnoresError(bindOk) ==
    /\ ~crashed
    /\ listenPc = "init"
    /\ IF open
         THEN /\ UNCHANGED <<open, trackerSet, listenerState>>
              /\ UNCHANGED <<trackerVars, loopVars, histVars>>
         ELSE OpenBody(bindOk)
    /\ listenPc' = "waiting"
    /\ UNCHANGED <<listenResult, crashed, now, reqVars, callerVars>>
    /\ UNCHANGED sigVars

\* Listen up to the receive: Open if !s.open (returning its error), then
\* go http.Serve(...) and block on <-s.tracker.C
ListenStart(bindOk) ==
    /\ ~crashed
    /\ listenPc = "init"
    /\ IF open
         THEN /\ listenPc' = "waiting"
              /\ UNCHANGED <<open, trackerSet, listenerState, listenResult>>
              /\ UNCHANGED <<trackerVars, loopVars, histVars>>
         ELSE /\ OpenBody(bindOk)
              /\ listenPc' = IF bindOk THEN "waiting" ELSE "failed"
              /\ listenResult' = IF bindOk THEN listenResult ELSE "BindError"
    /\ UNCHANGED <<crashed, now, reqVars, callerVars>>
    /\ UNCHANGED sigVars

\* ListenReturn with the received value dropped, as in "<-s.tracker.C" with
\* a final "return nil"
ListenReturnNil ==
    /\ ~crashed
    /\ listenPc = "waiting"
    /\ C # <<>>
    /\ listenResult' = NilErr
    /\ C' = Tail(C)
    /\ listenerState' = "closed"
    /\ listenPc' = "returned"
    /\ UNCHANGED <<open, trackerSet, crashed>>
    /\ UNCHANGED <<shuttingDown, shutdownReason, commandChan>>
    /\ UNCHANGED <<loopVars, now, reqVars, callerVars, histVars>>
    /\ UNCHANGED sigVars

\* ListenReturn without the s.insecureListener.Close() call
ListenReturnNoClose ==
    /\ ~crashed
    /\ listenPc = "waiting"
    /\ C # <<>>
    /\ listenResult' = Head(C)
    /\ C' = Tail(C)
    /\ listenPc' = "returned"
    /\ UNCHANGED <<open, trackerSet, listenerState, crashed>>
    /\ UNCHANGED <<shuttingDown, shutdownReason, commandChan>>
    /\ UNCHANGED <<loopVars, now, reqVars, callerVars, histVars>>
    /\ UNCHANGED sigVars

\* Listen from the receive on: err := <-s.tracker.C; Close(); return err
ListenReturn ==
    /\ ~crashed
    /\ listenPc = "waiting"
    /\ C # <<>>
    /\ listenResult' = Head(C)
    /\ C' = Tail(C)
    /\ listenerState' = "closed"
    /\ listenPc' = "returned"
    /\ UNCHANGED <<open, trackerSet, crashed>>
    /\ UNCHANGED <<shuttingDown, shutdownReason, commandChan>>
    /\ UNCHANGED <<loopVars, now, reqVars, callerVars, histVars>>
    /\ UNCHANGED sigVars

\* Shutdown(reason) on a scaffold whose tracker is nil: s.tracker.shutdown
\* dereferences nil and the panic ends the process
ShutdownNoTracker(c) ==
    /\ ~crashed
    /\ NextCaller(c)
    /\ ~trackerSet
    /\ crashed' = TRUE
    /\ cpc' = [cpc EXCEPT ![c] = "panicked"]
    /\ UNCHANGED <<open, trackerSet, listenerState, listenPc, listenResult>>
    /\ UNCHANGED <<trackerVars, loopVars, now, reqVars, histVars>>
    /\ UNCHANGED sigVars

\* ShutdownStore without the Store: shutdown() only sends the command
ShutdownStoreSkipsStore(c, reason) ==
    /\ ~crashed
    /\ NextCaller(c)
    /\ trackerSet
    /\ cpc' = [cpc EXCEPT ![c] = "stored"]
    /\ UNCHANGED <<scaffoldVars, trackerVars>>
    /\ UNCHANGED <<loopVars, now, reqVars, histVars>>
    /\ UNCHANGED sigVars

\* shutdown(reason), first statement: t.shutdownReason.Store(&reason)
ShutdownStore(c, reason) ==
    /\ ~crashed
    /\ NextCaller(c)
    /\ trackerSet
    /\ shutdownReason' = reason
    /\ cpc' = [cpc EXCEPT ![c] = "stored"]
    /\ UNCHANGED <<scaffoldVars, C, shuttingDown, commandChan>>
    /\ UNCHANGED <<loopVars, now, reqVars, histVars>>
    /\ UNCHANGED sigVars

\* shutdown(reason), second statement: t.commandChan <- shutdown
ShutdownSend(c) ==
    /\ ~crashed
    /\ cpc[c] = "stored"
    /\ Len(commandChan) < CommandChanCap
    /\ commandChan' = Append(commandChan, shutdown)
    /\ cpc' = [cpc EXCEPT ![c] = "returned"]
    /\ UNCHANGED <<scaffoldVars, C, shuttingDown, shutdownReason>>
    /\ UNCHANGED <<loopVars, now, reqVars, histVars>>
    /\ UNCHANGED sigVars

(* ------------------------------ CatchSignals --------------------------- *)
\* CatchSignals: make the channel, signal.Notify for the three signals,
\* start the goroutine
CatchSignals ==
    /\ ~crashed
    /\ bridgePc = "none"
    /\ notifying' = TRUE
    /\ bridgePc' = "waiting"
    /\ UNCHANGED <<sigChan, sigShutdowns, termDelivered, w, stackSize>>
    /\ UNCHANGED <<scaffoldVars, trackerVars, loopVars, now, reqVars, callerVars, histVars>>

\* the process receives sig while Notify is in force: package signal
\* sends on sigChan without blocking, so sig is lost when the buffer is full
Signal(sig) ==
    /\ ~crashed
    /\ notifying
    /\ sigChan' = IF Len(sigChan) < SigChanCap THEN Append(sigChan, sig) ELSE sigChan
    /\ termDelivered' = (termDelivered \/ sig \in {"SIGINT", "SIGTERM"})
    /\ UNCHANGED <<notifying, bridgePc, sigShutdowns, w, stackSize>>
    /\ UNCHANGED <<scaffoldVars, trackerVars, loopVars, now, reqVars, callerVars, histVars>>

\* sig := <-sigChan and the switch on it; SIGHUP enters dumpStack, which
\* starts with stackSize := 32767 and w zero
BridgeRecv ==
    /\ ~crashed
    /\ bridgePc = "waiting"
    /\ sigChan # <<>>
    /\ sigChan' = Tail(sigChan)
    /\ IF Head(sigChan) \in {"SIGINT", "SIGTERM"}
         THEN bridgePc' = "shutdown" /\ UNCHANGED <<w, stackSize>>
         ELSE bridgePc' = "dumping" /\ w' = 0 /\ stackSize' = InitialStackSize
    /\ UNCHANGED <<notifying, sigShutdowns, termDelivered>>
    /\ UNCHANGED <<scaffoldVars, trackerVars, loopVars, now, reqVars, callerVars, histVars>>

\* one evaluation of dumpStack's loop condition "w < stackSize": the loop
\* body when it holds (need is what the trace takes; runtime.Stack writes as
\* much of it as fits), the print and the return otherwise
DumpStackStep(need) ==
    /\ ~crashed
    /\ bridgePc = "dumping"
    /\ IF w < stackSize
         THEN /\ w' = IF need < stackSize THEN need ELSE stackSize
              /\ stackSize' = IF w' = stackSize THEN stackSize * 2 ELSE stackSize
              /\ UNCHANGED bridgePc
         ELSE /\ bridgePc' = "waiting"
              /\ UNCHANGED <<w, stackSize>>
    /\ UNCHANGED <<notifying, sigChan, sigShutdowns, termDelivered>>
    /\ UNCHANGED <<scaffoldVars, trackerVars, loopVars, now, reqVars, callerVars, histVars>>

\* s.Shutdown(ErrSignalCaught) on a scaffold whose tracker is nil: the panic
\* in the goroutine ends the process
BridgeShutdownNoTracker ==
    /\ ~crashed
    /\ bridgePc = "shutdown"
    /\ ~trackerSet
    /\ crashed' = TRUE
    /\ sigShutdowns' = sigShutdowns + 1
    /\ bridgePc' = "panicked"
    /\ UNCHANGED <<open, trackerSet, listenerState, listenPc, listenResult>>
    /\ UNCHANGED <<notifying, sigChan, termDelivered, w, stackSize>>
    /\ UNCHANGED <<trackerVars, loopVars, now, reqVars, callerVars, histVars>>

\* s.Shutdown(ErrSignalCaught): shutdown's Store of the reason
BridgeShutdownStore ==
    /\ ~crashed
    /\ bridgePc = "shutdown"
    /\ trackerSet
    /\ shutdownReason' = ErrSignalCaught
    /\ sigShutdowns' = sigShutdowns + 1
    /\ bridgePc' = "stored"
    /\ UNCHANGED <<notifying, sigChan, termDelivered, w, stackSize>>
    /\ UNCHANGED <<scaffoldVars, C, shuttingDown, commandChan>>
    /\ UNCHANGED <<loopVars, now, reqVars, callerVars, histVars>>

\* s.Shutdown(ErrSignalCaught): shutdown's send of the command
BridgeShutdownSend ==
    /\ ~crashed
    /\ bridgePc = "stored"
    /\ Len(commandChan) < CommandChanCap
    /\ commandChan' = Append(commandChan, shutdown)
    /\ bridgePc' = "resetting"
    /\ UNCHANGED <<notifying, sigChan, sigShutdowns, termDelivered, w, stackSize>>
    /\ UNCHANGED <<scaffoldVars, C, shuttingDown, shutdownReason>>
    /\ UNCHANGED <<loopVars, now, reqVars, callerVars, histVars>>

\* signal.Reset() and the return that ends the goroutine
BridgeReset ==
    /\ ~crashed
    /\ bridgePc = "resetting"
    /\ notifying' = FALSE
    /\ bridgePc' = "done"
    /\ UNCHANGED <<sigChan, sigShutdowns, termDelivered, w, stackSize>>
    /\ UNCHANGED <<scaffoldVars, trackerVars, loopVars, now, reqVars, callerVars, histVars>>

\* a goroutine whose Shutdown call returned calls Shutdown once more
ShutdownAgain(c) ==
    /\ ~crashed
    /\ cpc[c] = "returned"
    /\ cpc' = [cpc EXCEPT ![c] = "idle"]
    /\ UNCHANGED <<scaffoldVars, trackerVars, loopVars, now, reqVars, histVars, sigVars>>

(* --------------------------- specification ----------------------------- *)
Next ==
    \/ \E b \in BOOLEAN : Open(b)
    \/ \E b \in BOOLEAN : ListenStart(b)
    \/ ListenReturn
    \/ \E c \in Caller : ShutdownNoTracker(c)
    \/ \E c \in Caller, reason \in Reasons \cup {NilErr} : ShutdownStore(c, reason)
    \/ \E c \in Caller : ShutdownSend(c)
    \/ \E r \in Req : StartLoad(r)
    \/ \E r \in Req : StartSend(r)
    \/ \E r \in Req : StartFast(r)
    \/ \E r \in Req : HandlerReturn(r)
    \/ \E r \in Req : HandlerPanic(r)
    \/ \E r \in Req, mt \in MediaTypes : ServeHTTPReject(r, mt)
    \/ ProcessStart
    \/ ProcessEnd
    \/ ProcessShutdown
    \/ ProcessShutdownBranch
    \/ TimerExpire
    \/ ProcessTimer
    \/ Tick

Spec == Init /\ [][Next]_vars

TypeOK ==
    /\ open \in BOOLEAN /\ trackerSet \in BOOLEAN /\ crashed \in BOOLEAN
    /\ listenerState \in {"none", "bound", "closed"}
    /\ listenPc \in {"init", "waiting", "returned", "failed"}
    /\ shuttingDown \in {0, 1}
    /\ shutdownReason \in Reasons \cup {NilErr, Unset, ErrSignalCaught}
    /\ loopPc \in {"select", "shutdown"}
    /\ notifying \in BOOLEAN /\ termDelivered \in BOOLEAN
    /\ Len(sigChan) <= SigChanCap
    /\ bridgePc \in {"none", "waiting", "dumping", "shutdown", "stored",
                     "resetting", "done", "panicked"}
    /\ sigShutdowns \in 0..1
    /\ w <= stackSize
    /\ Len(commandChan) <= CommandChanCap
    /\ Len(C) <= CCap
    /\ now \in 0..MaxTime
    /\ rpc \in [Req -> {"idle", "checked", "serving", "rejected", "done", "panicked"}]
    /\ cpc \in [Caller -> {"idle", "stored", "returned", "panicked"}]

\* one step of the tracker goroutine: whichever case its select can take,
\* or the rest of case shutdown
trackerLoop ==
    \/ ProcessStart
    \/ ProcessEnd
    \/ ProcessShutdown
    \/ ProcessShutdownBranch
    \/ ProcessTimer

\* Next with every rejected client accepting text/plain.  The media type of
\* a rejection changes the response written and nothing the tracker reads.
DrainNext ==
    \/ \E b \in BOOLEAN : Open(b)
    \/ \E b \in BOOLEAN : ListenStart(b)
    \/ ListenReturn
    \/ \E c \in Caller : ShutdownNoTracker(c)
    \/ \E c \in Caller, reason \in Reasons \cup {NilErr} : ShutdownStore(c, reason)
    \/ \E c \in Caller : ShutdownSend(c)
    \/ \E r \in Req : StartLoad(r)
    \/ \E r \in Req : StartSend(r)
    \/ \E r \in Req : StartFast(r)
    \/ \E r \in Req : HandlerReturn(r)
    \/ \E r \in Req : HandlerPanic(r)
    \/ \E r \in Req : ServeHTTPReject(r, "text/plain")
    \/ ProcessStart
    \/ ProcessEnd
    \/ ProcessShutdown
    \/ ProcessShutdownBranch
    \/ TimerExpire
    \/ ProcessTimer
    \/ Tick

DrainSpec == Init /\ [][DrainNext]_vars

\* The Go scheduler runs every runnable goroutine: the tracker goroutine
\* takes a step when it can, time passes and the runtime expires a due
\* timer, and some Shutdown call that stored its reason sends its command.
FairSpec ==
    /\ DrainSpec
    /\ WF_vars(trackerLoop)
    /\ WF_vars(TimerExpire \/ Tick)
    /\ WF_vars(\E c \in Caller : ShutdownSend(c))

\* A scaffold on which Shutdown is called over and over and no request is
\* made: the program of a caller that does not stop at its first call.
RepeatNext ==
    \/ \E b \in BOOLEAN : ListenStart(b)
    \/ ListenReturn
    \/ \E c \in Caller, reason \in Reasons : ShutdownStore(c, reason)
    \/ \E c \in Caller : ShutdownSend(c)
    \/ \E c \in Caller : ShutdownAgain(c)
    \/ ProcessShutdown
    \/ ProcessShutdownBranch

RepeatSpec == Init /\ [][RepeatNext]_vars

RepeatFairSpec ==
    /\ RepeatSpec
    /\ WF_vars(ProcessShutdown)
    /\ WF_vars(ProcessShutdownBranch)
    /\ \A c \in Caller : WF_vars(ShutdownSend(c))

\* A scaffold that catches signals and is shut down by them only.
SigNext ==
    \/ \E b \in BOOLEAN : ListenStart(b)
    \/ ListenReturn
    \/ ProcessShutdown
    \/ ProcessShutdownBranch
    \/ CatchSignals
    \/ \E sig \in Signals : Signal(sig)
    \/ BridgeRecv
    \/ \E need \in StackLens : DumpStackStep(need)
    \/ BridgeShutdownNoTracker
    \/ BridgeShutdownStore
    \/ BridgeShutdownSend
    \/ BridgeReset

SigSpec == Init /\ [][SigNext]_vars

\* the goroutine of CatchSignals and the tracker loop are scheduled
SigFairSpec ==
    /\ SigSpec
    /\ WF_vars(ProcessShutdown)
    /\ WF_vars(ProcessShutdownBranch)
    /\ WF_vars(BridgeRecv)
    /\ WF_vars(\E need \in StackLens : DumpStackStep(need))
    /\ WF_vars(BridgeShutdownNoTracker)
    /\ WF_vars(BridgeShutdownStore)
    /\ WF_vars(BridgeShutdownSend)
    /\ WF_vars(BridgeReset)

(* ------------------------------ properties ----------------------------- *)
\* some shutdown() call has begun on the tracker
ShutdownCalled == \E c \in Caller : cpc[c] \in {"stored", "returned"}
\* some shutdown() call has returned
ShutdownReturned == \E c \in Caller : cpc[c] = "returned"
\* no Shutdown call of any kind was made
NoShutdown == \A c \in Caller : cpc[c] = "idle"
\* start() returned nil to r and r has not called end() yet
InFlight(r) == rpc[r] = "serving"
\* start() returned a non-nil error to r
Rejected(r) == startErr[r] \in Reasons

\* C1: at most one value is ever sent on C, and once shutdown() has been
\* called on the tracker exactly one value is eventually sent.
C1_StopSentExactlyOnce ==
    /\ [](delivered <= 1)
    /\ (ShutdownCalled ~> (delivered = 1))
\* a shutdown was processed, its stop was sent, and a later shutdown
\* command was left unprocessed by the loop that had exited
C1_Witness ==
    /\ delivered = 1 /\ sentStop
    /\ \A c \in Caller : cpc[c] = "returned"
    /\ commandChan # <<>>

\* C2: completion has not fired before the deadline while a request that
\* start() admitted has still to call end() (stated for the shutdowns whose
\* reason is a non-nil error, the case in which start() rejects at all).
C2_NoStopWhileInFlight ==
    (delivered >= 1 /\ stopBy # "timer" /\ shutdownReason # NilErr)
        => \A r \in Req : ~InFlight(r)

\* C3: a start() that begins once a shutdown() call has returned is rejected:
\* it does not go on to send its startRequest and return nil (stated for the
\* shutdowns whose reason is a non-nil error).
C3_RejectedAfterShutdownReturned ==
    [][\A r \in Req :
          (/\ ShutdownReturned /\ shutdownReason \in Reasons
           /\ rpc[r] = "idle" /\ rpc'[r] # "idle")
              => rpc'[r] = "rejected"]_vars

\* C4: the shutdown reason is set at most once; a later shutdown() call
\* never changes the reason that is stored.
C4_ReasonSetOnce ==
    [][shutdownReason # Unset => shutdownReason' = shutdownReason]_vars

\* C5: while the tracker drains and has not fired completion, no more than
\* one grace period has passed since the first shutdown was processed.
C5_StopWithinGracePeriod ==
    (stopping /\ ~sentStop /\ ~crashed) => now <= shutdownWait

\* C6: a step of the draining loop that processes the end() of the last
\* in-flight admitted request sends the completion value in that step.
C6_LastEndFiresCompletion ==
    [][(/\ ProcessEnd
        /\ stopping
        /\ endRequest \notin {commandChan'[i] : i \in 1..Len(commandChan')}
        /\ \A r \in Req : rpc[r] \notin {"serving", "panicked"})
          => (delivered' = delivered + 1 /\ sentStop' /\ C' = <<shutdownReason>>)]_vars
\* the loop drained: it armed the grace timer and then sent the stop on an end
C6_Witness ==
    /\ stopBy = "drain" /\ delivered = 1
    /\ \A r \in Req : rpc[r] = "done" /\ endCalls[r] = 1

\* C7: with no shutdown() call, C stays empty, nothing was ever sent on it,
\* and Listen neither returns nor is ended by a panic.
C7_NoStopWithoutShutdown ==
    NoShutdown => (C = <<>> /\ delivered = 0 /\ listenPc # "returned" /\ ~crashed)
\* Listen is blocked, requests were served to the end, and nobody shut down
C7_Witness ==
    /\ NoShutdown /\ listenPc = "waiting"
    /\ \E r \in Req : rpc[r] = "done"
    /\ commandChan = <<>> /\ activeRequests = 0

\* C8: with no shutdown() call every start() returns nil, and once every
\* request that started has had its end command processed the count is 0.
C8_CountReturnsToZero ==
    NoShutdown =>
        /\ \A r \in Req : startErr[r] \in {Unset, NilErr} /\ rpc[r] # "rejected"
        /\ (commandChan = <<>> /\ \A r \in Req : rpc[r] \in {"idle", "done"})
              => activeRequests = 0
\* every request was admitted and ended, and the loop has counted them all
C8_Witness ==
    /\ NoShutdown /\ commandChan = <<>> /\ activeRequests = 0
    /\ \A r \in Req : rpc[r] = "done" /\ startErr[r] = NilErr /\ sentCmds[r] = 2

\* C9: a request that was admitted has made exactly one end() call when
\* ServeHTTP is left, whether the wrapped handler returned or panicked.
C9_EndOnEveryExit ==
    \A r \in Req :
        (handlerCalled[r] /\ rpc[r] \in {"done", "panicked"}) => endCalls[r] = 1

\* C10: a request that start() rejected never reaches the wrapped handler,
\* never calls end(), puts no command on commandChan, and is answered 503.
C10_RejectionHasNoEffect ==
    \A r \in Req :
        Rejected(r) =>
            /\ ~handlerCalled[r] /\ endCalls[r] = 0 /\ sentCmds[r] = 0
            /\ rpc[r] \in {"rejected", "done"}
            /\ rpc[r] = "done" => status[r] = StatusServiceUnavailable
\* a rejected request got its 503 while another request was in flight
C10_Witness ==
    \E r, q \in Req :
        /\ Rejected(r) /\ rpc[r] = "done" /\ status[r] = StatusServiceUnavailable
        /\ rpc[q] = "serving" /\ activeRequests = 1

\* exactly one Shutdown call has been made on the tracker
OneShutdown == Cardinality({c \in Caller : cpc[c] \in {"stored", "returned"}}) = 1

\* C11: after a single shutdown(reason) with a non-nil reason, every start()
\* that was rejected returned exactly that reason.
C11_RejectedWithShutdownReason ==
    (OneShutdown /\ shutdownReason \in Reasons)
        => \A r \in Req : Rejected(r) => startErr[r] = shutdownReason
\* one Shutdown(Validate), and a request rejected with it got its 503
C11_Witness ==
    /\ OneShutdown /\ shutdownReason = "Validate"
    /\ \E r \in Req : rpc[r] = "done" /\ startErr[r] = "Validate"
                      /\ status[r] = StatusServiceUnavailable

\* C12: once the tracker is shutting down on a nil reason, a start() call
\* that begins is rejected, never admitted.
C12_NilReasonStillRejects ==
    [][\A r \in Req :
          (/\ shuttingDown # 0 /\ shutdownReason = NilErr
           /\ rpc[r] = "idle" /\ rpc'[r] # "idle")
              => rpc'[r] = "rejected"]_vars

\* C13: Listen returns a reason that was passed to Shutdown, the very reason
\* when one Shutdown call was made; the loop, having taken a shutdown command
\* with no active request, puts the stored reason on C in its next step.
C13_ListenReturnsReason ==
    /\ [](listenPc = "returned" =>
            /\ listenResult \in Reasons \cup {NilErr}
            /\ OneShutdown => listenResult = shutdownReason)
    /\ [][(ProcessShutdown /\ activeRequests = 0) => loopPc' = "shutdown"]_vars
    /\ [][(ProcessShutdownBranch /\ activeRequests = 0)
            => (C' = <<shutdownReason>> /\ delivered' = 1)]_vars
\* Listen returned the reason of the one Shutdown call after the grace
\* timer ended the wait for a request still in flight
C13_Witness ==
    /\ listenPc = "returned" /\ OneShutdown
    /\ listenResult = "Validate" /\ stopBy = "timer"
    /\ \E r \in Req : rpc[r] = "serving"

\* C16: when the bind fails the scaffold stays not open with no listener,
\* Listen has returned the bind error, no request is ever served, and Listen
\* neither blocks on C nor is called again.
C16_BindErrorEndsListen ==
    /\ []((trackerSet /\ ~open) <=> listenPc = "failed")
    /\ [](listenPc = "failed" =>
            /\ listenResult = "BindError" /\ listenerState = "none"
            /\ ~Serving /\ \A r \in Req : rpc[r] = "idle")
    /\ [][listenPc = "failed" => (listenPc' = "failed" /\ Len(C') >= Len(C))]_vars
\* the bind failed, and a Shutdown made the tracker fire: nobody reads C
C16_Witness ==
    /\ listenPc = "failed" /\ ~open
    /\ C # <<>> /\ delivered = 1

\* C17: the listener is closed only by a Listen that received the completion
\* value, it is closed when Listen has returned, and it is closed once.
C17_ListenerClosedAfterCompletion ==
    /\ [](listenerState = "closed" => (listenPc = "returned" /\ delivered >= 1 /\ sentStop))
    /\ [](listenPc = "returned" => listenerState = "closed")
    /\ [][listenerState = "closed" => listenerState' = "closed"]_vars
\* the listener was closed after a drain that ended on the last end()
C17_Witness ==
    /\ listenerState = "closed" /\ listenPc = "returned"
    /\ stopBy = "drain" /\ \E r \in Req : rpc[r] = "done" /\ endCalls[r] = 1

\* C19: once the loop has processed a shutdown command no start() call
\* returns nil (stated for the shutdowns whose reason is a non-nil error).
C19_NoAdmissionOnceStopping ==
    [][\A r \in Req :
          (stopping /\ shutdownReason \in Reasons /\ rpc[r] # "serving")
              => rpc'[r] # "serving"]_vars

\* C20: the active count includes every request that start() has told to
\* proceed and that has not called end() yet.
C20_CountIncludesAdmitted ==
    ~crashed => activeRequests >= Cardinality({r \in Req : rpc[r] = "serving"})

\* C18: a rejected request is answered with status 503, the negotiated media
\* type as Content-Type, and as body the JSON object {"error": "Stopping",
\* "message": <reason text>} for application/json, the reason text otherwise.
C18_RejectionResponse ==
    \A r \in Req :
        (Rejected(r) /\ rpc[r] = "done") =>
            /\ status[r] = StatusServiceUnavailable
            /\ contentType[r] = negotiated[r]
            /\ negotiated[r] = "application/json" =>
                 body[r] = <<"{", "error", "Stopping", "message", startErr[r], "}">>
            /\ negotiated[r] # "application/json" => body[r] = <<startErr[r]>>
\* one request was rejected in JSON and another in plain text
C18_Witness ==
    \E r, q \in Req :
        /\ rpc[r] = "done" /\ negotiated[r] = "application/json"
        /\ body[r] = <<"{", "error", "Stopping", "message", "Validate", "}">>
        /\ rpc[q] = "done" /\ negotiated[q] = "text/plain" /\ body[q] = <<"Validate">>

\* C14: a call of shutdown() that has stored its reason returns, whatever
\* phase the tracker is in and however many calls came before it.
C14_ShutdownCallsReturn ==
    \A c \in Caller : (cpc[c] = "stored") ~> (cpc[c] = "returned")

\* C15: with CatchSignals installed, a SIGINT or SIGTERM that reaches the
\* process leads to exactly one Shutdown(ErrSignalCaught) call, whatever
\* SIGHUPs came before it.
C15_TermSignalShutsDown ==
    /\ [](sigShutdowns <= 1)
    /\ (termDelivered ~> (sigShutdowns = 1))

\* C21: a shutdown command processed while the tracker is already draining
\* changes neither the stopping flag, the active count nor the armed grace
\* timer and its deadline.
C21_LaterShutdownIsNoOp ==
    [][/\ (ProcessShutdown /\ stopping)
            => UNCHANGED <<stopping, activeRequests, graceArmed, graceDeadline>>
       /\ (ProcessShutdownBranch /\ (graceArmed \/ graceChan))
            => UNCHANGED <<stopping, activeRequests, graceArmed, graceDeadline>>]_vars

\* C22: with start() and end() called by ServeHTTP only, the active count
\* of the tracker loop is never negative.
C22_CountNeverNegative == activeRequests >= 0
\* two requests were admitted and ended while a shutdown was in progress,
\* and the loop has processed every command and counted back to zero
C22_Witness ==
    /\ stopping /\ activeRequests = 0 /\ commandChan = <<>>
    /\ \A r \in Req : rpc[r] = "done" /\ endCalls[r] = 1 /\ sentCmds[r] = 2

\* C23: the phase only moves forward: stopping and shuttingDown are never
\* cleared, a sent stop stays sent, the stop is only sent once stopping is
\* set, and the case that handles a shutdown command sends it only when no
\* request is active and the grace timer was never armed.
C23_PhaseMonotonic ==
    /\ [][stopping => stopping']_vars
    /\ [][shuttingDown = 1 => shuttingDown' = 1]_vars
    /\ [][sentStop => sentStop']_vars
    /\ [](sentStop => stopping)
    /\ []((stopping <=> shuttingDown = 1) /\ (sentStop <=> delivered = 1))
    /\ [][(~sentStop /\ sentStop') => stopping]_vars
    /\ [][(ProcessShutdownBranch /\ sentStop')
            => (activeRequests = 0 /\ ~graceArmed /\ ~graceChan /\ stopBy' = "shutdown")]_vars
\* the loop drained, sent the stop and exited, leaving a later shutdown
\* command unread
C23_Witness ==
    /\ sentStop /\ stopping /\ shuttingDown = 1 /\ stopBy = "drain"
    /\ commandChan # <<>> /\ Head(commandChan) = shutdown

\* C24: dumpStack, entered on SIGHUP, returns to the signal loop.
C24_DumpStackTerminates == (bridgePc = "dumping") ~> (bridgePc = "waiting")

\* C25: an Open that fails to bind leaves the tracker, the listener and the
\* open flag as they were before the call.
C25_FailedOpenChangesNothing ==
    [][(listenPc # "failed" /\ listenPc' = "failed")
          => UNCHANGED <<trackerSet, listenerState, open>>]_vars

\* C26: whenever shuttingDown is 1 or the loop is stopping a reason has
\* been stored, so neither start() nor sendStop loads an empty value: the
\* only panic is that of a Shutdown call on a scaffold without tracker.
C26_ReasonStoredBeforeRead ==
    /\ []((shuttingDown = 1 \/ stopping) => shutdownReason # Unset)
    /\ [](\A r \in Req : rpc[r] # "panicked" \/ handlerCalled[r])
    /\ [][(~crashed /\ crashed') => ~trackerSet]_vars
\* start() read the reason on its fast path and sendStop read it for C
C26_Witness ==
    /\ shuttingDown = 1 /\ delivered = 1 /\ shutdownReason \in Reasons
    /\ \E r \in Req : Rejected(r) /\ ~handlerCalled[r]

====
